---- MODULE Spec2Model ----
(***************************************************************************)
(* Model of the evolution-log tools of RogueMon-Revo-Data:                 *)
(*   scripts/evolution_chain_filter.py  build_evolution_chains (closure)   *)
(*   scripts/evolution_analyzer.py      parse / compile / report           *)
(* Text is modelled as a sequence of one-character strings, so that        *)
(* strip, split, join and str(int) are computed character by character.    *)
(***************************************************************************)
EXTENDS Integers, Sequences, FiniteSets, TLC

VARIABLES
    \* ---- evolution_chain_filter.py: build_evolution_chains ----
    starter_pokemon,   \* the seed set (argument)
    evolution_data,    \* the mapping: source -> list of <<target, weight>>
    evolution_chain,   \* the closure set being built
    to_check,          \* the worklist (a list)
    checked,           \* the visited set
    expanded,          \* per entity, how often its edge list was iterated
    seed_order,        \* the order list(starter_pokemon) gave in this call
    prev_order,        \* the order it gave in the call before this one
    results,           \* the sets returned by the calls finished so far
    pc,                \* "start", "loop", "done", or "idle"
    \* ---- evolution_analyzer.py ----
    file_contents,     \* the list of file texts (argument)
    frequencies,       \* the nested frequency table
    prev,              \* <<>>, or <<r>>: the previous call's input and table
    report_lines,      \* report_lines of generate_frequency_report
    report,            \* the text it returns
    fpc,               \* "start", "compiled", "reported", or "idle"
    \* ---- evolution_chain_filter.py: filter_evolution_data ----
    filtered_data,     \* the mapping it returns
    \* ---- the line parsers ----
    parse_input,       \* the text given to a parser
    parse_out,         \* the records it returns
    ppc,               \* "branch", "pair", "patch", then "parsed_..."; or "idle"
    \* ---- db/revodb.py: parse_patch_file ----
    patch_items,       \* per line of the patch file, the triples written on it
    records,           \* the records returned
    errors             \* the errors returned

cvars == <<starter_pokemon, evolution_data, evolution_chain, to_check,
           checked, expanded, seed_order, prev_order, results, pc>>
fvars == <<file_contents, frequencies, prev, report_lines, report, fpc>>
pvars == <<filtered_data, parse_input, parse_out, ppc, patch_items, records,
           errors>>
vars == <<cvars, fvars, pvars>>

(***************************************************************************)
(* Bounds                                                                  *)
(***************************************************************************)
MaxEdges == 2     \* edges of the mapping, over all sources
MaxRuns == 2      \* calls of build_evolution_chains on the same inputs
MaxFiles == 2     \* file texts given to compile_evolution_frequencies
MaxLines == 4     \* lines of those files, in all
MaxTokens == 4    \* tokens of a line given to a line parser
MaxPatchLines == 2   \* lines of the patch file
MaxTriples == 2      \* triples written in the patch file, in all

Entities == {"A", "B", "C"}
Weights == {1}

RECURSIVE SumLen(_, _)
SumLen(m, S) ==
    IF S = {} THEN 0
    ELSE LET k == CHOOSE x \in S : TRUE
         IN Len(m[k]) + SumLen(m, S \ {k})

EdgeLists == UNION {[1..n -> Entities \X Weights] : n \in 0..MaxEdges}
Mappings ==
    {m \in UNION {[S -> EdgeLists] : S \in SUBSET Entities} :
        SumLen(m, DOMAIN m) <= MaxEdges}

\* All orders in which list(a_set) may enumerate the set.
Orders(S) ==
    {s \in [1..Cardinality(S) -> S] : \A i, j \in DOMAIN s : s[i] = s[j] => i = j}

(***************************************************************************)
(* build_evolution_chains                                                  *)
(***************************************************************************)
InitChainEmpty(seeds) == {}
InitChain(seeds) == seeds

ShouldSkipUnknownOnly(current, chk, data) == current \notin DOMAIN data
ShouldSkip(current, chk, data) ==
    current \in chk \/ current \notin DOMAIN data

AfterSkipBreak(rest) == <<>>
AfterSkip(rest) == rest

TargetsOf(edges) == [i \in DOMAIN edges |-> edges[i][1]]

AddTargets(chain, edges) == chain \cup {edges[i][1] : i \in DOMAIN edges}

PushTargetsIfChecked(work, edges, chk) ==
    work \o SelectSeq(TargetsOf(edges), LAMBDA e : e \in chk)
PushTargets(work, edges, chk) ==
    work \o SelectSeq(TargetsOf(edges), LAMBDA e : e \notin chk)

(***************************************************************************)
(* Text: a sequence of one-character strings                               *)
(***************************************************************************)
NL == <<"\n">>
Arrow == <<"-", ">">>
Pipe == <<"|">>
Whitespace == {" ", "\n"}

\* Code points of the characters used, for the order sorted() puts str in.
Ord(c) ==
    CASE c = "\n" -> 10 [] c = " " -> 32 [] c = "(" -> 40 [] c = ")" -> 41
      [] c = "," -> 44 [] c = "-" -> 45 [] c = "0" -> 48 [] c = "1" -> 49
      [] c = "2" -> 50 [] c = "3" -> 51 [] c = "4" -> 52 [] c = "5" -> 53
      [] c = "6" -> 54 [] c = "7" -> 55 [] c = "8" -> 56 [] c = "9" -> 57
      [] c = ">" -> 62 [] c = "A" -> 65 [] c = "B" -> 66 [] c = "E" -> 69
      [] c = "H" -> 72 [] c = "|" -> 124

\* str.strip()
RECURSIVE LStrip(_)
LStrip(s) ==
    IF s = <<>> \/ Head(s) \notin Whitespace THEN s ELSE LStrip(Tail(s))

RECURSIVE RStrip(_)
RStrip(s) ==
    IF s = <<>> \/ s[Len(s)] \notin Whitespace THEN s
    ELSE RStrip(SubSeq(s, 1, Len(s) - 1))

Strip(s) == RStrip(LStrip(s))

StartsWith(s, sep) == Len(s) >= Len(sep) /\ SubSeq(s, 1, Len(sep)) = sep

\* str.split(sep): the parts between the occurrences of sep, left to right.
RECURSIVE SplitFrom(_, _, _)
SplitFrom(s, sep, cur) ==
    IF s = <<>> THEN <<cur>>
    ELSE IF StartsWith(s, sep)
         THEN <<cur>> \o SplitFrom(SubSeq(s, Len(sep) + 1, Len(s)), sep, <<>>)
         ELSE SplitFrom(Tail(s), sep, Append(cur, Head(s)))

Split(s, sep) == SplitFrom(s, sep, <<>>)

\* sep in s
RECURSIVE Contains(_, _)
Contains(s, sep) ==
    IF Len(s) < Len(sep) THEN FALSE
    ELSE StartsWith(s, sep) \/ Contains(Tail(s), sep)

\* sep.join(parts)
RECURSIVE Join(_, _)
Join(parts, sep) ==
    IF parts = <<>> THEN <<>>
    ELSE IF Len(parts) = 1 THEN parts[1]
    ELSE parts[1] \o sep \o Join(Tail(parts), sep)

\* str(n) for n >= 0
Digits == <<"0", "1", "2", "3", "4", "5", "6", "7", "8", "9">>

RECURSIVE IntToStr(_)
IntToStr(n) ==
    IF n < 10 THEN <<Digits[n + 1]>>
    ELSE IntToStr(n \div 10) \o <<Digits[(n % 10) + 1]>>

\* a < b for str
RECURSIVE TextLess(_, _)
TextLess(a, b) ==
    IF b = <<>> THEN FALSE
    ELSE IF a = <<>> THEN TRUE
    ELSE IF Head(a) = Head(b) THEN TextLess(Tail(a), Tail(b))
    ELSE Ord(Head(a)) < Ord(Head(b))

\* sorted(keys) for str keys
RECURSIVE SortTexts(_)
SortTexts(S) ==
    IF S = {} THEN <<>>
    ELSE LET m == CHOOSE x \in S : \A y \in S \ {x} : TextLess(x, y)
         IN <<m>> \o SortTexts(S \ {m})

\* sorted(keys) for int keys
RECURSIVE SortInts(_)
SortInts(S) ==
    IF S = {} THEN <<>>
    ELSE LET m == CHOOSE x \in S : \A y \in S : x <= y
         IN <<m>> \o SortInts(S \ {m})

(***************************************************************************)
(* dict, as the list of its <<key, value>> items in insertion order        *)
(***************************************************************************)
DictKeys(d) == {d[i][1] : i \in DOMAIN d}

DictGet(d, k) == d[CHOOSE i \in DOMAIN d : d[i][1] = k][2]

\* d[k] = v: an existing key keeps its place.
DictSet(d, k, v) ==
    IF k \in DictKeys(d)
    THEN [i \in DOMAIN d |-> IF d[i][1] = k THEN <<k, v>> ELSE d[i]]
    ELSE Append(d, <<k, v>>)

\* f[k] = v for a mapping kept as a function
Put(f, k, v) == [x \in DOMAIN f \cup {k} |-> IF x = k THEN v ELSE f[x]]

\* defaultdict.__getitem__: a missing key is inserted with the default.
Touch(f, k, default) == IF k \in DOMAIN f THEN f ELSE Put(f, k, default)

(***************************************************************************)
(* evolution_analyzer.py                                                   *)
(***************************************************************************)
\* Lines 20-33: what one line adds to evolution_data.
ParseLine(data, line) ==
    IF Contains(line, Arrow)
    THEN LET parts == Split(line, Arrow)
         IN IF Len(parts) # 2 THEN data
            ELSE LET base_pokemon == Strip(parts[1])
                     evolutions == Split(Strip(parts[2]), Pipe)
                 IN DictSet(data, base_pokemon,
                            [i \in DOMAIN evolutions |-> Strip(evolutions[i])])
    ELSE data

\* Line 18: lines[1:]
DataLinesAll(lines) == lines
DataLines(lines) == Tail(lines)

RECURSIVE ParseLines(_, _)
ParseLines(data, lines) ==
    IF lines = <<>> THEN data
    ELSE ParseLines(ParseLine(data, Head(lines)), Tail(lines))

\* Lines 14-35
parse_evolution_file(file_content) ==
    LET lines == Split(Strip(file_content), NL)
    IN ParseLines(<<>>, DataLines(lines))

\* Line 57: counts[evolved_pokemon] += 1 on a defaultdict(int)
DictAddFromZero(counts, e) ==
    IF e \in DictKeys(counts) THEN DictSet(counts, e, DictGet(counts, e) + 1)
    ELSE DictSet(counts, e, 0)
DictAdd(counts, e) ==
    IF e \in DictKeys(counts) THEN DictSet(counts, e, DictGet(counts, e) + 1)
    ELSE DictSet(counts, e, 0 + 1)

\* Line 57: frequencies[base_pokemon][i][evolved_pokemon] += 1
Increment(f, b, i, e) ==
    LET f1 == Touch(f, b, <<>>)
        branches == Touch(f1[b], i, <<>>)
    IN Put(f1, b, Put(branches, i, DictAdd(branches[i], e)))

\* Lines 55-57: enumerate(evolutions), from position k (1-based here, the
\* branch index is k - 1).
RECURSIVE CountEvolutions(_, _, _, _)
CountEvolutions(f, b, evolutions, k) ==
    IF k > Len(evolutions) THEN f
    ELSE CountEvolutions(Increment(f, b, k - 1, evolutions[k]), b, evolutions, k + 1)

\* Lines 54-57: evolution_data.items()
RECURSIVE CountItems(_, _)
CountItems(f, items) ==
    IF items = <<>> THEN f
    ELSE CountItems(CountEvolutions(f, Head(items)[1], Head(items)[2], 1),
                    Tail(items))

\* Line 51: the files iterated
FilesAfterFirst(files) == IF files = <<>> THEN files ELSE Tail(files)
FilesCompiled(files) == files

RECURSIVE CompileFiles(_, _)
CompileFiles(f, files) ==
    IF files = <<>> THEN f
    ELSE CompileFiles(CountItems(f, parse_evolution_file(Head(files))),
                      Tail(files))

\* Lines 49-59
compile_evolution_frequencies(files) == CompileFiles(<<>>, FilesCompiled(files))

\* Lines 78-81
BranchNameZeroBased(base_pokemon, branch_index, n) ==
    IF n > 1 THEN base_pokemon \o IntToStr(branch_index) ELSE base_pokemon
BranchName(base_pokemon, branch_index, n) ==
    IF n > 1 THEN base_pokemon \o IntToStr(branch_index + 1) ELSE base_pokemon

\* Line 85: sorted(items, key=count, reverse=True), a stable sort.
RECURSIVE InsertByCount(_, _)
InsertByCount(sorted, x) ==
    IF sorted = <<>> THEN <<x>>
    ELSE IF Head(sorted)[2] >= x[2]
         THEN <<Head(sorted)>> \o InsertByCount(Tail(sorted), x)
         ELSE <<x>> \o sorted

RECURSIVE SortByCount(_, _)
SortByCount(sorted, items) ==
    IF items = <<>> THEN sorted
    ELSE SortByCount(InsertByCount(sorted, Head(items)), Tail(items))

\* Line 88
EvolutionList(sorted_evolutions) ==
    Join([i \in DOMAIN sorted_evolutions |->
             <<"(">> \o sorted_evolutions[i][1] \o <<",", " ">>
                     \o IntToStr(sorted_evolutions[i][2]) \o <<")">>],
         <<",", " ">>)

\* Lines 76-91: the lines of one source
BranchLines(f, base_pokemon) ==
    LET branches == f[base_pokemon]
        order == SortInts(DOMAIN branches)
    IN [k \in DOMAIN order |->
           BranchName(base_pokemon, order[k], Cardinality(DOMAIN branches))
           \o <<" ", "-", ">", " ">>
           \o EvolutionList(SortByCount(<<>>, branches[order[k]]))]

RECURSIVE ReportFrom(_, _)
ReportFrom(f, bases) ==
    IF bases = <<>> THEN <<>>
    ELSE BranchLines(f, Head(bases)) \o ReportFrom(f, Tail(bases))

\* Lines 71-91
ReportLines(f) == ReportFrom(f, SortTexts(DOMAIN f))

\* Lines 74, 84: the reads frequencies[base_pokemon] and branches[branch_index]
\* go through defaultdict.__getitem__.
RECURSIVE ReadBranches(_, _)
ReadBranches(branches, order) ==
    IF order = <<>> THEN branches
    ELSE ReadBranches(Touch(branches, Head(order), <<>>), Tail(order))

RECURSIVE ReadTable(_, _)
ReadTable(f, bases) ==
    IF bases = <<>> THEN f
    ELSE LET f1 == Touch(f, Head(bases), <<>>)
             b == Head(bases)
         IN ReadTable(Put(f1, b, ReadBranches(f1[b], SortInts(DOMAIN f1[b]))),
                      Tail(bases))

ParseIdle ==
    /\ filtered_data = <<>>
    /\ parse_input = <<>>
    /\ parse_out = <<>>
    /\ ppc = "idle"
    /\ patch_items = <<>>
    /\ records = <<>>
    /\ errors = <<>>

ClosureIdle ==
    /\ starter_pokemon = {}
    /\ evolution_data = <<>>
    /\ evolution_chain = {}
    /\ to_check = <<>>
    /\ checked = {}
    /\ expanded = [e \in Entities |-> 0]
    /\ seed_order = <<>>
    /\ prev_order = <<>>
    /\ results = <<>>
    /\ pc = "idle"

FreqIdle ==
    /\ file_contents = <<>>
    /\ frequencies = <<>>
    /\ prev = <<>>
    /\ report_lines = <<>>
    /\ report = <<>>
    /\ fpc = "idle"

InitClosure ==
    /\ starter_pokemon \in SUBSET Entities
    /\ evolution_data \in Mappings
    /\ evolution_chain = {}
    /\ to_check = <<>>
    /\ checked = {}
    /\ expanded = [e \in Entities |-> 0]
    /\ seed_order = <<>>
    /\ prev_order = <<>>
    /\ results = <<>>
    /\ pc = "start"
    /\ FreqIdle
    /\ ParseIdle

\* Lines 68-70: a call starts; list(starter_pokemon) enumerates the set in
\* some order.
Begin ==
    /\ \/ pc = "start"
       \/ pc = "done" /\ Len(results) < MaxRuns
    /\ \E order \in Orders(starter_pokemon) :
          /\ seed_order' = order
          /\ prev_order' = seed_order
          /\ to_check' = order
    /\ evolution_chain' = InitChain(starter_pokemon)
    /\ checked' = {}
    /\ expanded' = [e \in Entities |-> 0]
    /\ pc' = "loop"
    /\ UNCHANGED <<starter_pokemon, evolution_data, results, fvars, pvars>>

\* Lines 72-83: one iteration of the while loop.
Step ==
    /\ pc = "loop"
    /\ to_check # <<>>
    /\ LET current == Head(to_check)
           rest == Tail(to_check)
       IN IF ShouldSkip(current, checked, evolution_data)
          THEN /\ to_check' = AfterSkip(rest)
               /\ UNCHANGED <<evolution_chain, checked, expanded>>
          ELSE LET chk == checked \cup {current}
                   edges == evolution_data[current]
               IN /\ checked' = chk
                  /\ expanded' = [expanded EXCEPT ![current] = @ + 1]
                  /\ evolution_chain' = AddTargets(evolution_chain, edges)
                  /\ to_check' = PushTargets(rest, edges, chk)
    /\ UNCHANGED <<starter_pokemon, evolution_data, seed_order, prev_order,
                   results, pc, fvars, pvars>>

\* Lines 72, 85: the worklist is empty, the set is returned.
Return ==
    /\ pc = "loop"
    /\ to_check = <<>>
    /\ results' = Append(results, evolution_chain)
    /\ pc' = "done"
    /\ UNCHANGED <<starter_pokemon, evolution_data, evolution_chain, to_check,
                   checked, expanded, seed_order, prev_order, fvars, pvars>>

(***************************************************************************)
(* The analyzer's inputs: up to MaxFiles file texts with MaxLines lines    *)
(* in all, each line one of LineSet.                                       *)
(***************************************************************************)
Blank == <<>>
Hdr == <<"-", "-", "H", "-", "-">>
LineE == <<"E", " ", "-", ">", " ", "A", " ", "|", " ", "B">>
LineE1 == <<"E", "1", " ", "-", ">", " ", "A">>
LineSet == {Blank, Hdr, LineE, LineE1}

RECURSIVE SumSeq(_)
SumSeq(q) == IF q = <<>> THEN 0 ELSE Head(q) + SumSeq(Tail(q))

\* The numbers of lines of the files.
Shapes ==
    UNION {{sh \in [1..n -> 1..MaxLines] : SumSeq(sh) <= MaxLines} : n \in 0..MaxFiles}

MakeFiles(flat, sh) ==
    [k \in DOMAIN sh |->
        Join(SubSeq(flat, SumSeq(SubSeq(sh, 1, k - 1)) + 1, SumSeq(SubSeq(sh, 1, k))),
             NL)]

Inputs ==
    UNION {{MakeFiles(flat, sh) : flat \in [1..SumSeq(sh) -> LineSet]} : sh \in Shapes}

InitFreq ==
    /\ file_contents \in Inputs
    /\ frequencies = <<>>
    /\ prev = <<>>
    /\ report_lines = <<>>
    /\ report = <<>>
    /\ fpc = "start"
    /\ ClosureIdle
    /\ ParseIdle

\* Lines 113, 37-59: compile_evolution_frequencies(file_contents)
Compile ==
    /\ fpc = "start"
    /\ frequencies' = compile_evolution_frequencies(file_contents)
    /\ fpc' = "compiled"
    /\ UNCHANGED <<file_contents, prev, report_lines, report, cvars, pvars>>

\* Lines 114, 61-93: generate_frequency_report(frequencies)
Report ==
    /\ fpc = "compiled"
    /\ report_lines' = ReportLines(frequencies)
    /\ report' = Join(report_lines', NL)
    /\ frequencies' = ReadTable(frequencies, SortTexts(DOMAIN frequencies))
    /\ fpc' = "reported"
    /\ UNCHANGED <<file_contents, prev, cvars, pvars>>

\* A further call, on new_files; the finished call is remembered in prev.
CallAgain(new_files) ==
    /\ fpc = "reported"
    /\ new_files # file_contents
    /\ prev' = <<[input |-> file_contents, table |-> frequencies]>>
    /\ file_contents' = new_files
    /\ frequencies' = <<>>
    /\ report_lines' = <<>>
    /\ report' = <<>>
    /\ fpc' = "start"
    /\ UNCHANGED <<cvars, pvars>>

\* The same files in another order.
CompilePermuted ==
    \E p \in Orders(DOMAIN file_contents) :
        CallAgain([k \in DOMAIN file_contents |-> file_contents[p[k]]])

IsEvolutionLine(line) == ParseLine(<<>>, line) # <<>>

\* The same files, but for the first line of one, which was an evolution line.
CompileFirstLineReplaced ==
    \E k \in DOMAIN file_contents, h \in LineSet \ {Blank} :
        LET lines == Split(file_contents[k], NL)
        IN /\ IsEvolutionLine(lines[1])
           /\ CallAgain([file_contents EXCEPT
                            ![k] = Join(<<h>> \o Tail(lines), NL)])

NextFreq == Compile \/ Report \/ CompilePermuted \/ CompileFirstLineReplaced

SpecFreq == InitFreq /\ [][NextFreq]_vars

NextClosure == Begin \/ Step \/ Return

SpecClosure == InitClosure /\ [][NextClosure]_vars
FairSpecClosure == SpecClosure /\ WF_vars(NextClosure)

(***************************************************************************)
(* filter_evolution_data                                                   *)
(***************************************************************************)
FilterWeights == {1, 2}

\* The mappings parse_evolution_data can give, with weights.
RECURSIVE FilterMappingsOver(_, _)
FilterMappingsOver(S, edges) ==
    IF S = {} THEN {<<>>}
    ELSE LET k == CHOOSE x \in S : TRUE
         IN UNION {{Put(m, k, l) :
                       m \in FilterMappingsOver(S \ {k}, edges - n),
                       l \in [1..n -> Entities \X FilterWeights]} :
                   n \in 0..edges}

FilterMappings == UNION {FilterMappingsOver(S, MaxEdges) : S \in SUBSET Entities}

\* Line 93
KeepSource(pokemon, chain) == pokemon \in chain

\* Line 94: the value stored is the input's list itself.
KeptEvolutionsInChain(evolutions, chain) ==
    SelectSeq(evolutions, LAMBDA e : e[1] \in chain)
KeptEvolutions(evolutions, chain) == evolutions

\* Lines 92-94: the loop over evolution_data.items()
RECURSIVE FilterItems(_, _, _, _)
FilterItems(filtered, data, keys, chain) ==
    IF keys = {} THEN filtered
    ELSE LET pokemon == CHOOSE k \in keys : TRUE
         IN FilterItems(IF KeepSource(pokemon, chain)
                        THEN Put(filtered, pokemon,
                                 KeptEvolutions(data[pokemon], chain))
                        ELSE filtered,
                        data, keys \ {pokemon}, chain)

\* Lines 87-96
filter_evolution_data(data, chain) == FilterItems(<<>>, data, DOMAIN data, chain)

InitFilter ==
    /\ starter_pokemon = {}
    /\ evolution_data \in FilterMappings
    /\ evolution_chain \in SUBSET Entities
    /\ to_check = <<>>
    /\ checked = {}
    /\ expanded = [e \in Entities |-> 0]
    /\ seed_order = <<>>
    /\ prev_order = <<>>
    /\ results = <<>>
    /\ pc = "filter"
    /\ FreqIdle
    /\ ParseIdle

\* Line 120: filter_evolution_data(evolution_data, evolution_chain)
Filter ==
    /\ pc = "filter"
    /\ filtered_data' = filter_evolution_data(evolution_data, evolution_chain)
    /\ pc' = "filtered"
    /\ UNCHANGED <<starter_pokemon, evolution_data, evolution_chain, to_check,
                   checked, expanded, seed_order, prev_order, results, fvars,
                   parse_input, parse_out, ppc, patch_items, records, errors>>

NextFilter == Filter

SpecFilter == InitFilter /\ [][NextFilter]_vars

(***************************************************************************)
(* parse_evolution_data (evolution_chain_filter.py), the Pair grammar      *)
(***************************************************************************)
\* \w and \d of the regular expressions, over the characters used.
DigitChars == {"0", "1", "2", "3", "4", "5", "6", "7", "8", "9"}
WordChars == DigitChars \cup {"A", "B", "C", "E", "H", "n", "o", "e", "_"}

\* The length of the longest prefix of s made of characters of S.
RECURSIVE RunLength(_, _)
RunLength(s, S) ==
    IF s = <<>> \/ Head(s) \notin S THEN 0 ELSE 1 + RunLength(Tail(s), S)

Drop(s, n) == SubSeq(s, n + 1, Len(s))

\* The position of the first c in s, or 0.
RECURSIVE IndexOf(_, _)
IndexOf(s, c) ==
    IF s = <<>> THEN 0
    ELSE IF Head(s) = c THEN 1
    ELSE LET r == IndexOf(Tail(s), c) IN IF r = 0 THEN 0 ELSE r + 1

\* int(text) for a text of digits
RECURSIVE StrToInt(_)
StrToInt(s) ==
    IF s = <<>> THEN 0
    ELSE StrToInt(SubSeq(s, 1, Len(s) - 1)) * 10
         + (CHOOSE d \in 0..9 : Digits[d + 1] = s[Len(s)])

\* Line 47: re.match(r'^(\w+(?:\d+)?(?:\w+)?)(?:\s+->)(.+)$', line) on a
\* stripped line: <<>> or <<[name, rest]>>.
MatchSourceLine(line) ==
    LET w == RunLength(line, WordChars)
        sp == RunLength(Drop(line, w), Whitespace)
        rest == Drop(line, w + sp)
    IN IF w >= 1 /\ sp >= 1 /\ StartsWith(rest, Arrow)
          /\ Len(rest) > Len(Arrow) /\ ~Contains(rest, NL)
       THEN <<[name |-> SubSeq(line, 1, w), rest |-> Drop(rest, Len(Arrow))]>>
       ELSE <<>>

\* Line 54: r'\(([^,]+), (\d+)\)' matched at the start of s:
\* <<>> or <<[name, freq, len]>>.
PairAt(s) ==
    LET q == IndexOf(s, ",")
        d == RunLength(Drop(s, q + 1), DigitChars)
    IN IF /\ s # <<>> /\ Head(s) = "("
          /\ q >= 3
          /\ Len(s) >= q + 1 /\ s[q + 1] = " "
          /\ d >= 1
          /\ Len(s) >= q + 2 + d /\ s[q + 2 + d] = ")"
       THEN <<[name |-> SubSeq(s, 2, q - 1),
               freq |-> StrToInt(SubSeq(s, q + 2, q + 1 + d)),
               len |-> q + 2 + d]>>
       ELSE <<>>

\* Lines 53-57: re.finditer, the matches from left to right, not overlapping.
RECURSIVE FindPairs(_)
FindPairs(s) ==
    IF s = <<>> THEN <<>>
    ELSE LET m == PairAt(s)
         IN IF m # <<>>
            THEN <<(<<m[1].name, m[1].freq>>)>> \o FindPairs(Drop(s, m[1].len))
            ELSE FindPairs(Tail(s))

\* Lines 42-59: what one line of the file adds to evolution_data.
PairParseLine(data, raw) ==
    LET line == Strip(raw)
        match == IF line = <<>> THEN <<>> ELSE MatchSourceLine(line)
    IN IF match = <<>> THEN data
       ELSE DictSet(data, match[1].name, FindPairs(Strip(match[1].rest)))

RECURSIVE PairParseLines(_, _)
PairParseLines(data, lines) ==
    IF lines = <<>> THEN data
    ELSE PairParseLines(PairParseLine(data, Head(lines)), Tail(lines))

\* for line in f: the lines of a text; a final newline ends the last line.
FileLines(text) ==
    LET parts == Split(text, NL)
    IN IF parts[Len(parts)] = <<>> THEN SubSeq(parts, 1, Len(parts) - 1)
       ELSE parts

\* Lines 32-61
parse_evolution_data(text) == PairParseLines(<<>>, FileLines(text))

(***************************************************************************)
(* The lines given to the Branch and Pair parsers: up to MaxTokens tokens. *)
(***************************************************************************)
TokName == <<"A">>
TokArrow == <<" ", "-", ">", " ">>
TokPipe == <<" ", "|", " ">>
TokPair == <<"(", "B", ",", " ", "1", ")">>
TokBlankPair == <<"(", " ", ",", " ", "1", ")">>
TokNone == <<"n", "o", "n", "e">>
Tokens == {TokName, TokArrow, TokPipe, TokPair, TokBlankPair, TokNone}

ParserLines ==
    UNION {{Join(t, <<>>) : t \in [1..n -> Tokens]} : n \in 0..MaxTokens}

InitParse ==
    /\ parse_input \in ParserLines
    /\ ppc \in {"branch", "pair"}
    /\ parse_out = <<>>
    /\ filtered_data = <<>>
    /\ patch_items = <<>>
    /\ records = <<>>
    /\ errors = <<>>
    /\ ClosureIdle
    /\ FreqIdle

\* parse_evolution_file on a log with a header line and the input line.
ParseBranch ==
    /\ ppc = "branch"
    /\ parse_out' = parse_evolution_file(Hdr \o NL \o parse_input)
    /\ ppc' = "parsed_branch"
    /\ UNCHANGED <<cvars, fvars, filtered_data, parse_input, patch_items,
                   records, errors>>

\* parse_evolution_data on a file holding the input line.
ParsePair ==
    /\ ppc = "pair"
    /\ parse_out' = parse_evolution_data(parse_input \o NL)
    /\ ppc' = "parsed_pair"
    /\ UNCHANGED <<cvars, fvars, filtered_data, parse_input, patch_items,
                   records, errors>>

NextParse == ParseBranch \/ ParsePair

SpecParse == InitParse /\ [][NextParse]_vars

(***************************************************************************)
(* parse_patch_file (db/revodb.py), the Triple grammar                     *)
(***************************************************************************)
\* Line 45: re.match(r'(.+?)\s*->\s*(.*)', line) on a stripped line: the
\* shortest non-empty prefix followed by optional whitespace and "->".
\* <<>> or <<[pokemon, evolution_str]>>, both as matched (not yet stripped).
RECURSIVE MatchPatchFrom(_, _)
MatchPatchFrom(line, n) ==
    IF n > Len(line) \/ line[n] = "\n" THEN <<>>
    ELSE LET after == Drop(line, n)
             rest == Drop(after, RunLength(after, Whitespace))
         IN IF StartsWith(rest, Arrow)
            THEN LET tail == Drop(rest, Len(Arrow))
                     g2 == Drop(tail, RunLength(tail, Whitespace))
                     nl == IndexOf(g2, "\n")
                 IN <<[pokemon |-> SubSeq(line, 1, n),
                       evolution_str |->
                           IF nl = 0 THEN g2 ELSE SubSeq(g2, 1, nl - 1)]>>
            ELSE MatchPatchFrom(line, n + 1)

MatchPatchLine(line) == MatchPatchFrom(line, 1)

\* Line 58: r'\(([^,]+),\s*(\d+),\s*([\d.]+)\)' matched at the start of s:
\* <<>> or <<[evolves_to, count, percentage, len]>>, the groups as text.
TripleAt(s) ==
    LET q == IndexOf(s, ",")
        a == Drop(s, q)
        ws1 == RunLength(a, Whitespace)
        b == Drop(a, ws1)
        d == RunLength(b, DigitChars)
        c == Drop(b, d)
        e == Drop(c, 1)
        ws2 == RunLength(e, Whitespace)
        f == Drop(e, ws2)
        r == RunLength(f, DigitChars \cup {"."})
        g == Drop(f, r)
    IN IF /\ s # <<>> /\ Head(s) = "("
          /\ q >= 3
          /\ d >= 1
          /\ c # <<>> /\ Head(c) = ","
          /\ r >= 1
          /\ g # <<>> /\ Head(g) = ")"
       THEN <<[evolves_to |-> SubSeq(s, 2, q - 1),
               count |-> SubSeq(b, 1, d),
               percentage |-> SubSeq(f, 1, r),
               len |-> Len(s) - Len(g) + 1]>>
       ELSE <<>>

\* re.findall: the matches from left to right, not overlapping.
RECURSIVE FindTriples(_)
FindTriples(s) ==
    IF s = <<>> THEN <<>>
    ELSE LET m == TripleAt(s)
         IN IF m # <<>> THEN <<m[1]>> \o FindTriples(Drop(s, m[1].len))
            ELSE FindTriples(Tail(s))

RECURSIVE Pow10(_)
Pow10(n) == IF n = 0 THEN 1 ELSE 10 * Pow10(n - 1)

\* Line 69: float(percentage) for a text of digits and dots: <<>> for a
\* ValueError, else <<[num, den]>>, the value num / den. (Exact for the short
\* texts used here; a double rounds texts of more than 15 digits.)
ParseFloat(text) ==
    LET dot == IndexOf(text, ".")
        int == IF dot = 0 THEN text ELSE SubSeq(text, 1, dot - 1)
        frac == IF dot = 0 THEN <<>> ELSE Drop(text, dot)
    IN IF Contains(frac, <<".">>) \/ (int = <<>> /\ frac = <<>>) THEN <<>>
       ELSE <<[num |-> StrToInt(int \o frac), den |-> Pow10(Len(frac))]>>

\* Line 73
CountInvalidBelowZero(count) == count < 0
CountInvalid(count) == count <= 0

\* Line 76
PercentageInvalid(pct) == pct.num < 0 \/ pct.num > 100 * pct.den

\* Lines 65-82: one triple; out is [records, errors].
ValidateTriple(out, i, pokemon, triple) ==
    LET evolves_to == Strip(triple.evolves_to)
        count == StrToInt(triple.count)
        pct == ParseFloat(triple.percentage)
        err(kind) == [out EXCEPT !.errors = Append(@, <<i, kind>>)]
    IN IF pct = <<>> THEN err("value_error")
       ELSE IF evolves_to = <<>> THEN err("empty_evolves_to")
       ELSE IF CountInvalid(count) THEN err("invalid_count")
       ELSE IF PercentageInvalid(pct[1]) THEN err("invalid_percentage")
       ELSE [out EXCEPT !.records =
                Append(@, <<pokemon, evolves_to, count, pct[1]>>)]

RECURSIVE ValidateTriples(_, _, _, _)
ValidateTriples(out, i, pokemon, triples) ==
    IF triples = <<>> THEN out
    ELSE ValidateTriples(ValidateTriple(out, i, pokemon, Head(triples)),
                         i, pokemon, Tail(triples))

\* Lines 39-82: line number i of the file.
PatchLine(out, i, raw) ==
    LET line == Strip(raw)
        match == MatchPatchLine(line)
        err(kind) == [out EXCEPT !.errors = Append(@, <<i, kind>>)]
    IN IF line = <<>> THEN err("empty")
       ELSE IF match = <<>> THEN err("no_arrow")
       ELSE IF Strip(match[1].pokemon) = <<>> THEN err("empty_pokemon")
       ELSE LET triples == FindTriples(Strip(match[1].evolution_str))
            IN IF triples = <<>> THEN err("no_triples")
               ELSE ValidateTriples(out, i, Strip(match[1].pokemon), triples)

RECURSIVE PatchLines(_, _, _)
PatchLines(out, lines, i) ==
    IF i > Len(lines) THEN out
    ELSE PatchLines(PatchLine(out, i, lines[i]), lines, i + 1)

\* Lines 31-84
parse_patch_file(text) ==
    PatchLines([records |-> <<>>, errors |-> <<>>], FileLines(text), 1)

(***************************************************************************)
(* The patch files: per line a source and triples of TripleSet, each       *)
(* written as text next to the values it stands for (p as num / den).      *)
(***************************************************************************)
TripleText(t, c, p) ==
    <<"(">> \o t \o <<",", " ">> \o c \o <<",", " ">> \o p \o <<")">>

Triple(t, c, p, cval, pnum, pden) ==
    [text |-> TripleText(t, c, p), t |-> Strip(t), c |-> cval,
     pnum |-> pnum, pden |-> pden]

TripleSet ==
    { Triple(<<"B">>, <<"5">>, <<"5", "0">>, 5, 50, 1),
      Triple(<<"B">>, <<"5">>, <<"9", "9", ".", "5">>, 5, 995, 10),
      Triple(<<"C">>, <<"1">>, <<"1", "0", "0">>, 1, 100, 1),
      Triple(<<"C">>, <<"1">>, <<"0">>, 1, 0, 1),
      Triple(<<"B">>, <<"0">>, <<"5", "0">>, 0, 50, 1),
      Triple(<<"B">>, <<"-", "1">>, <<"5", "0">>, -1, 50, 1),
      Triple(<<"B">>, <<"5">>, <<"-", "0", ".", "0", "1">>, 5, -1, 100),
      Triple(<<"B">>, <<"5">>, <<"1", "0", "0", ".", "0", "1">>, 5, 10001, 100),
      Triple(<<" ">>, <<"5">>, <<"5", "0">>, 5, 50, 1) }

\* The source written on line k.
PatchSource(k) == <<"E">> \o IntToStr(k)

\* The numbers of triples on the lines.
PatchShapes ==
    UNION {{sh \in [1..n -> 0..MaxTriples] : SumSeq(sh) <= MaxTriples} :
              n \in 0..MaxPatchLines}

MakeItems(flat, sh) ==
    [k \in DOMAIN sh |->
        SubSeq(flat, SumSeq(SubSeq(sh, 1, k - 1)) + 1, SumSeq(SubSeq(sh, 1, k)))]

PatchInputs ==
    UNION {{MakeItems(flat, sh) : flat \in [1..SumSeq(sh) -> TripleSet]} :
              sh \in PatchShapes}

\* The text of the file: "source -> triple, triple" per line.
PatchText(items) ==
    Join([k \in DOMAIN items |->
             PatchSource(k) \o <<" ", "-", ">", " ">>
             \o Join([j \in DOMAIN items[k] |-> items[k][j].text], <<",", " ">>)
             \o NL],
         <<>>)

InitPatch ==
    /\ patch_items \in PatchInputs
    /\ parse_input = PatchText(patch_items)
    /\ ppc = "patch"
    /\ parse_out = <<>>
    /\ filtered_data = <<>>
    /\ records = <<>>
    /\ errors = <<>>
    /\ ClosureIdle
    /\ FreqIdle

\* Line 86: records, errors = parse_patch_file(input_filename)
ParsePatch ==
    /\ ppc = "patch"
    /\ LET out == parse_patch_file(parse_input)
       IN /\ records' = out.records
          /\ errors' = out.errors
    /\ ppc' = "parsed_patch"
    /\ UNCHANGED <<cvars, fvars, filtered_data, parse_input, parse_out,
                   patch_items>>

NextPatch == ParsePatch

SpecPatch == InitPatch /\ [][NextPatch]_vars

Init == InitClosure \/ InitFreq
Next == NextClosure \/ NextFreq
Spec == Init /\ [][Next]_vars

(***************************************************************************)
(* Claims about build_evolution_chains                                     *)
(***************************************************************************)
EdgeTargets(e) ==
    IF e \in DOMAIN evolution_data
    THEN {evolution_data[e][i][1] : i \in DOMAIN evolution_data[e]}
    ELSE {}

\* S holds the seeds and every target of each of its members.
ForwardClosed(S) ==
    /\ starter_pokemon \subseteq S
    /\ \A e \in S : EdgeTargets(e) \subseteq S

\* C1: the set returned by build_evolution_chains is exactly the set of
\* entities reachable from the seeds by zero or more forward edges: it holds
\* the seeds, is closed under the edges of its members, and is contained in
\* every set that is.
C1_ReturnsReachableSet ==
    pc = "done" =>
        /\ ForwardClosed(evolution_chain)
        /\ \A S \in SUBSET Entities : ForwardClosed(S) => evolution_chain \subseteq S

\* The example of the specification: {A: [(B,1)], B: [(C,1)], C: []}, seed {A}.
C1_Witness ==
    /\ pc = "done"
    /\ starter_pokemon = {"A"}
    /\ evolution_data = [e \in {"A", "B", "C"} |->
           IF e = "A" THEN <<(<<"B", 1>>)>>
           ELSE IF e = "B" THEN <<(<<"C", 1>>)>> ELSE <<>>]
    /\ evolution_chain = {"A", "B", "C"}

\* C2: during a call every seed is a member of the closure set, and a step of
\* the call never removes a member.
C2_SeedsStayAndSetGrows ==
    /\ [](pc \in {"loop", "done"} => starter_pokemon \subseteq evolution_chain)
    /\ [][pc = "loop" => evolution_chain \subseteq evolution_chain']_vars

\* A seed that is no source key is still a member after another seed has been
\* expanded and has added an entity.
C2_Witness ==
    /\ pc = "loop"
    /\ \E s \in starter_pokemon : s \notin DOMAIN evolution_data
    /\ \E e \in Entities : expanded[e] = 1
    /\ evolution_chain # starter_pokemon
    /\ starter_pokemon \subseteq evolution_chain

\* C3: every call terminates (the worklist runs empty and the set is
\* returned), and during a call no entity is expanded more than once.
C3_TerminatesExpandingOnce ==
    /\ (pc = "loop") ~> (pc = "done")
    /\ [](\A e \in Entities : expanded[e] <= 1)

\* A finished call on a mapping with a two-entity cycle, both expanded once.
C3_Witness ==
    /\ pc = "done"
    /\ \E a, b \in Entities :
          /\ a # b
          /\ b \in EdgeTargets(a)
          /\ a \in EdgeTargets(b)
          /\ expanded[a] = 1
          /\ expanded[b] = 1

\* C4: every call on the same seed set and mapping returns the same set,
\* whatever order the seeds were placed on the worklist in.
C4_ResultIndependentOfOrder ==
    \A i, j \in DOMAIN results : results[i] = results[j]

\* Two finished calls that started from different seed orders and followed
\* edges.
C4_Witness ==
    /\ Len(results) = 2
    /\ prev_order # seed_order
    /\ results[2] # starter_pokemon

(***************************************************************************)
(* Claims about evolution_analyzer.py                                      *)
(***************************************************************************)
\* The table as a plain mapping: what dict equality compares.
TableMap(f) ==
    [b \in DOMAIN f |->
        [i \in DOMAIN f[b] |->
            [e \in DictKeys(f[b][i]) |-> DictGet(f[b][i], e)]]]

TableCount(f, b, i, e) ==
    IF b \in DOMAIN f /\ i \in DOMAIN f[b] /\ e \in DictKeys(f[b][i])
    THEN DictGet(f[b][i], e) ELSE 0

IsPermutationOf(a, b) ==
    /\ Len(a) = Len(b)
    /\ \E p \in Orders(DOMAIN a) : b = [k \in DOMAIN a |-> a[p[k]]]

\* C5: compile_evolution_frequencies gives the same table, as a mapping, for
\* every permutation of its list of file texts: the table of this call equals
\* the table of the previous call whenever the two inputs are permutations
\* of each other.
C5_TableIndependentOfFileOrder ==
    (fpc \in {"compiled", "reported"} /\ prev # <<>>
        /\ IsPermutationOf(prev[1].input, file_contents))
    => TableMap(frequencies) = TableMap(prev[1].table)

\* Two different files that both contribute, compiled in both orders, with a
\* count that adds up over the files.
C5_Witness ==
    /\ fpc = "compiled"
    /\ prev # <<>>
    /\ Len(file_contents) = 2
    /\ file_contents[1] # file_contents[2]
    /\ prev[1].input = <<file_contents[2], file_contents[1]>>
    /\ TableCount(frequencies, <<"E">>, 0, <<"A">>) = 2

\* b is a with the first line of one file, an evolution line, replaced by
\* another non-blank line.
FirstLineReplaced(a, b) ==
    /\ Len(a) = Len(b)
    /\ \E k \in DOMAIN a :
          /\ \A j \in DOMAIN a : j # k => a[j] = b[j]
          /\ LET la == Split(a[k], NL)
                 lb == Split(b[k], NL)
             IN /\ Tail(la) = Tail(lb)
                /\ IsEvolutionLine(la[1])
                /\ la[1] # lb[1]
                /\ Strip(lb[1]) # <<>>

\* C6: a first line that is itself a valid evolution line adds nothing to the
\* table: replacing it by any other header line (another evolution line, or
\* plain header text) leaves the table unchanged.
C6_FirstLineNeverCounted ==
    (fpc \in {"compiled", "reported"} /\ prev # <<>>
        /\ FirstLineReplaced(prev[1].input, file_contents))
    => TableMap(frequencies) = TableMap(prev[1].table)

\* A file "E -> A | B" / "E1 -> A" compiled, then again with "--H--" as its
\* first line: E is in neither table, E1 in both.
C6_Witness ==
    /\ fpc = "compiled"
    /\ prev # <<>>
    /\ prev[1].input = <<Join(<<LineE, LineE1>>, NL)>>
    /\ file_contents = <<Join(<<Hdr, LineE1>>, NL)>>
    /\ DOMAIN frequencies = {<<"E", "1">>}

\* The number of non-blank lines after the first line of a file, over all
\* files, that parse to source b with target e at branch index i.
RECURSIVE CountTrue(_)
CountTrue(q) ==
    IF q = <<>> THEN 0 ELSE (IF Head(q) THEN 1 ELSE 0) + CountTrue(Tail(q))

LineObserves(line, b, i, e) ==
    /\ Strip(line) # <<>>
    /\ IsEvolutionLine(line)
    /\ LET rec == ParseLine(<<>>, line)[1]
       IN /\ rec[1] = b
          /\ i + 1 \in DOMAIN rec[2]
          /\ rec[2][i + 1] = e

FileObservations(text, b, i, e) ==
    LET lines == Split(text, NL)
    IN CountTrue([j \in DOMAIN Tail(lines) |-> LineObserves(Tail(lines)[j], b, i, e)])

Observations(files, b, i, e) ==
    SumSeq([k \in DOMAIN files |-> FileObservations(files[k], b, i, e)])

\* The sources, branch indexes and targets the lines of LineSet can give.
SeenSources == {<<"E">>, <<"E", "1">>}
SeenTargets == {<<"A">>, <<"B">>}
SeenBranches == {0, 1}

\* C7: after compile_evolution_frequencies the count of (source, i, target) is
\* the number of non-blank lines after the first line of a file, over all
\* files, that parse to that source with that target at position i.
C7_CountIsNumberOfLines ==
    fpc = "compiled" =>
        \A b \in SeenSources \cup DOMAIN frequencies, i \in SeenBranches,
           e \in SeenTargets :
            TableCount(frequencies, b, i, e) = Observations(file_contents, b, i, e)

\* C8: every entry of the table has a count of at least 1 and was observed on
\* a line after the first line of an input file, and no source or branch
\* sub-table is empty; also after generate_frequency_report has read the
\* table.
C8_EntriesPositiveAndObserved ==
    fpc \in {"compiled", "reported"} =>
        \A b \in DOMAIN frequencies :
            /\ DOMAIN frequencies[b] # {}
            /\ \A i \in DOMAIN frequencies[b] :
                  /\ frequencies[b][i] # <<>>
                  /\ \A n \in DOMAIN frequencies[b][i] :
                        /\ frequencies[b][i][n][2] \in Nat
                        /\ frequencies[b][i][n][2] >= 1
                        /\ Observations(file_contents, b, i,
                                        frequencies[b][i][n][1]) >= 1

\* A table with a two-branch source seen in two files, after the report.
C8_Witness ==
    /\ fpc = "reported"
    /\ DOMAIN frequencies = {<<"E">>}
    /\ DOMAIN frequencies[<<"E">>] = {0, 1}
    /\ TableCount(frequencies, <<"E">>, 1, <<"B">>) = 2

\* The (source, branch) pairs of the table, in report order.
Pairs ==
    UNION {{<<b, i>> : i \in DOMAIN frequencies[b]} : b \in DOMAIN frequencies}

PairBefore(p, q) ==
    \/ TextLess(p[1], q[1])
    \/ p[1] = q[1] /\ p[2] < q[2]

Rank(p) == 1 + Cardinality({q \in Pairs : PairBefore(q, p)})

ExpectedName(p) ==
    IF Cardinality(DOMAIN frequencies[p[1]]) > 1
    THEN p[1] \o <<Digits[p[2] + 2]>>
    ELSE p[1]

\* The text of a report line before its " -> ".
LineName(line) == Split(line, <<" ", "-", ">", " ">>)[1]

\* C9: generate_frequency_report emits exactly one line per (source, branch),
\* sources in lexicographic and branches in ascending order; the name on the
\* line is the source followed by branch_index+1 when the source has several
\* branches and the source itself when it has one.
C9_OneNamedLinePerBranch ==
    fpc = "reported" =>
        /\ Len(report_lines) = Cardinality(Pairs)
        /\ \A p \in Pairs :
              /\ Rank(p) \in DOMAIN report_lines
              /\ LineName(report_lines[Rank(p)]) = ExpectedName(p)
        /\ report_lines # <<>> => Split(report, NL) = report_lines

\* The example of the specification, a two-branch source seen once, next to a
\* single-branch source.
C9_Witness ==
    /\ fpc = "reported"
    /\ report_lines =
         << <<"E", "1", " ", "-", ">", " ", "(", "A", ",", " ", "1", ")">>,
            <<"E", "2", " ", "-", ">", " ", "(", "B", ",", " ", "1", ")">>,
            <<"E", "1", " ", "-", ">", " ", "(", "A", ",", " ", "1", ")">> >>

\* C10: two different (source, branch) pairs are never rendered with the same
\* left-hand name: the names of the report lines are pairwise different.
C10_BranchNamesDistinct ==
    fpc = "reported" =>
        \A j, k \in DOMAIN report_lines :
            j # k => LineName(report_lines[j]) # LineName(report_lines[k])

(***************************************************************************)
(* Claims about filter_evolution_data                                      *)
(***************************************************************************)
\* C11: the mapping returned has exactly the source keys of the input that
\* are in the closure set, each with the input's own target list (targets
\* outside the closure included), and the input mapping is left unchanged.
C11_FilterKeepsSourcesInChain ==
    /\ [](pc = "filtered" =>
            /\ DOMAIN filtered_data = DOMAIN evolution_data \cap evolution_chain
            /\ \A k \in DOMAIN filtered_data :
                  filtered_data[k] = evolution_data[k])
    /\ [][pc = "filter" => evolution_data' = evolution_data]_vars

\* The example of the specification: {A: [(B,1)], B: [(C,1)], C: []} with
\* closure {A, B}; B keeps its edge to C, which is outside the closure.
C11_Witness ==
    /\ pc = "filtered"
    /\ evolution_chain = {"A", "B"}
    /\ evolution_data = [e \in {"A", "B", "C"} |->
           IF e = "A" THEN <<(<<"B", 1>>)>>
           ELSE IF e = "B" THEN <<(<<"C", 1>>)>> ELSE <<>>]
    /\ DOMAIN filtered_data = {"A", "B"}
    /\ filtered_data["B"] = <<(<<"C", 1>>)>>

(***************************************************************************)
(* Claims about the line parsers                                           *)
(***************************************************************************)
\* C12: every record produced by the Branch-grammar parser and by the
\* Pair-grammar parser has a non-empty source, a non-empty target list, and
\* only target names that are non-empty after trimming.
C12_RecordsWellFormed ==
    /\ ppc = "parsed_branch" =>
          \A n \in DOMAIN parse_out :
              /\ parse_out[n][1] # <<>>
              /\ parse_out[n][2] # <<>>
              /\ \A j \in DOMAIN parse_out[n][2] :
                    Strip(parse_out[n][2][j]) # <<>>
    /\ ppc = "parsed_pair" =>
          \A n \in DOMAIN parse_out :
              /\ parse_out[n][1] # <<>>
              /\ parse_out[n][2] # <<>>
              /\ \A j \in DOMAIN parse_out[n][2] :
                    Strip(parse_out[n][2][j][1]) # <<>>

(***************************************************************************)
(* Claims about parse_patch_file                                           *)
(***************************************************************************)
\* A triple as the claim counts it valid.
TripleValid(tr) ==
    /\ tr.t # <<>>
    /\ tr.c > 0
    /\ 0 <= tr.pnum
    /\ tr.pnum <= 100 * tr.pden

\* The valid triples of the file in order, each with the line it is on.
RECURSIVE ValidOnLine(_, _)
ValidOnLine(k, trs) ==
    IF trs = <<>> THEN <<>>
    ELSE (IF TripleValid(Head(trs)) THEN <<(<<k, Head(trs)>>)>> ELSE <<>>)
         \o ValidOnLine(k, Tail(trs))

RECURSIVE ValidFrom(_, _)
ValidFrom(items, k) ==
    IF k > Len(items) THEN <<>>
    ELSE ValidOnLine(k, items[k]) \o ValidFrom(items, k + 1)

RecordIs(rec, k, tr) ==
    /\ rec[1] = PatchSource(k)
    /\ rec[2] = tr.t
    /\ rec[3] = tr.c
    /\ rec[4].num * tr.pden = tr.pnum * rec[4].den

\* C13: the records of parse_patch_file are exactly the triples with a
\* non-empty target, a count > 0 and 0 <= percentage <= 100, in order and
\* with their values: a triple breaking one bound is dropped, and nothing
\* but that triple is lost, on its line or on another line.
C13_ExactlyValidTriplesKept ==
    ppc = "parsed_patch" =>
        LET want == ValidFrom(patch_items, 1)
        IN /\ Len(records) = Len(want)
           /\ \A n \in DOMAIN want :
                 n \in DOMAIN records /\ RecordIs(records[n], want[n][1], want[n][2])

\* A line whose only triple has percentage 100.01, then a line with a dropped
\* triple (count 0) before one with percentage 100: only the last is kept.
C13_Witness ==
    /\ ppc = "parsed_patch"
    /\ Len(patch_items) = 2
    /\ Len(patch_items[1]) = 1
    /\ patch_items[1][1].pnum = 10001
    /\ Len(patch_items[2]) = 1
    /\ patch_items[2][1].pnum = 100
    /\ patch_items[2][1].pden = 1
    /\ records = <<(<<PatchSource(2), <<"C">>, 1, [num |-> 100, den |-> 1]>>)>>
    /\ errors = <<(<<1, "invalid_percentage">>)>>
====
